---- MODULE Spec2Model ----
(***************************************************************************)
(* Embedding storage and ANN search of BitTemple.                          *)
(*                                                                         *)
(* Three drafts of the same subsystem live in the repository and are       *)
(* modelled side by side over one set of variables:                        *)
(*   Spec            the batched AnnService (infrastructure/ann/service.py)*)
(*                   over VectorStore + DiskAnnIndex + IdMap               *)
(*   SpecEager       the eager AnnService (bitharbor/ann/service.py) over  *)
(*                   VectorStore + HnswIndex + IdMap                       *)
(*   SpecMovies      the module-level movie index                          *)
(*                   (features/movies/vector_index.py) with                *)
(*                   ingest_catalog_movie (features/movies/ingest.py)      *)
(* SpecResolve and SpecAnyPair are Spec with resolve_media added, and with *)
(* add_embedding called on a hash that is not the vector's digest.         *)
(* The components are also driven on their own:                            *)
(*   SpecStore       VectorStore with any array handed to append, and with *)
(*                   an append cut short                                   *)
(*   SpecRoundTrip   DiskAnnIndex and HnswIndex through build, search,     *)
(*                   persist, clear, load, search                          *)
(* All request handlers are coroutines on one event loop: code between two *)
(* awaits is one atomic action, and an await is a point where another      *)
(* request may run.                                                        *)
(***************************************************************************)
EXTENDS Integers, Sequences, FiniteSets, TLC

\* ---------------------------------------------------------------- bounds
Dim == 2                \* embedding dimension D of the store
MaxRows == 3            \* appends stop when the store holds this many rows
MaxRebuildBatch == 2    \* settings.ann.rebuild_batch ranges over 0..this
MaxK == 1               \* k of a search ranges up to this
MaxNegK == 1            \* ... and down to minus this
MaxBatch == 2           \* rows of a two-dimensional array handed to append
MaxInFlight == 2        \* requests suspended at an await at the same time
MaxIds == 2
RefineCandidates == 2   \* settings.ann.refine_candidates

\* ------------------------------------------------------- program constants
ItemSize == 4           \* np.dtype(np.float32).itemsize

Max(a, b) == IF a >= b THEN a ELSE b
Min(a, b) == IF a <= b THEN a ELSE b

\* the k a caller of search may pass
Ks == (0 - MaxNegK)..MaxK

\* s[:k] of a Python list: the first k elements, or all but the last -k
PySlice(s, k) ==
  IF k >= 0 THEN SubSeq(s, 1, Min(k, Len(s)))
  ELSE SubSeq(s, 1, Max(0, Len(s) + k))

\* ----------------------------------------------------------------- vectors
UnitVec(i) == [j \in 1..Dim |-> IF j = i THEN 1 ELSE 0]
\* two distinct unit-norm embeddings
ValidVectors == {UnitVec(1), UnitVec(Dim)}
\* a vector whose last axis is not Dim
BadVec == [j \in 1..(Dim + 1) |-> 0]
InputVectors == ValidVectors \cup {BadVec}

\* canonicalize_vector: the vector_hash the callers of add_embedding pass is
\* the blake3 digest of the vector's bytes
blake3(vec) == <<"blake3", vec>>

RECURSIVE DotFrom(_, _, _)
DotFrom(a, b, i) ==
  IF i > Len(a) \/ i > Len(b) THEN 0 ELSE a[i] * b[i] + DotFrom(a, b, i + 1)
Dot(a, b) == DotFrom(a, b, 1)

\* ------------------------------------------------------------- VectorStore
\* The vectors file is a sequence of float32 cells, ItemSize bytes each.
record_bytes == Dim * ItemSize
st_size(f) == Len(f) * ItemSize

row_count(f) ==
  IF st_size(f) = 0 THEN 0 ELSE st_size(f) \div record_bytes

\* append: the shape check, the bytes written in "ab" mode, the returned id
append_accepts(vec) == Len(vec) = Dim
append_write_truncating(f, vec) == vec
append_write(f, vec) == f \o vec
append_returns_count(f, vec) == row_count(append_write(f, vec))
append_returns(f, vec) == row_count(append_write(f, vec)) - 1

\* memmap of shape (count, dim): row i (0-based) of the file
Row(f, i) == SubSeq(f, i * Dim + 1, (i + 1) * Dim)
read_all(f) == [i \in 1..row_count(f) |-> Row(f, i - 1)]

\* ------------------------------------------------------------ DiskAnnIndex
\* index_directory: the rows the on-disk index was built over and whether
\* the file "disk.index" is present; static_index: None, or the handle on
\* the build it was opened on.
EmptyDir == [rows |-> <<>>, disk_index |-> FALSE]
NoHandle == [loaded |-> FALSE, rows |-> <<>>]
ClearedIndex == [index_directory |-> EmptyDir, static_index |-> NoHandle]

DiskAnn_clear(idx) == ClearedIndex

rmtree_mkdir(idx) == [idx EXCEPT !.index_directory = EmptyDir]
build_disk_index(idx, vectors, marker) ==
  [idx EXCEPT !.index_directory = [rows |-> vectors, disk_index |-> marker]]
open_static_index(idx) ==
  [idx EXCEPT !.static_index = [loaded |-> TRUE, rows |-> idx.index_directory.rows]]

\* load: a handle on whatever the directory holds, none on an empty directory
DiskAnn_has_index(idx) == idx.index_directory # EmptyDir
DiskAnn_load(idx) ==
  IF ~DiskAnn_has_index(idx) THEN [idx EXCEPT !.static_index = NoHandle]
  ELSE open_static_index(idx)

DiskAnn_build_keeps_handle(idx, vectors, marker) ==
  IF Len(vectors) = 0 THEN DiskAnn_clear(idx)
  ELSE build_disk_index(rmtree_mkdir(idx), vectors, marker)
DiskAnn_build(idx, vectors, marker) ==
  IF Len(vectors) = 0 THEN DiskAnn_clear(idx)
  ELSE open_static_index(build_disk_index(rmtree_mkdir(idx), vectors, marker))

\* distance of the cosine metric between unit vectors
Distance(a, b) == 1 - Dot(a, b)

\* the k nearest of the rows whose distances to the query are dist, best
\* first, ties by row id
RECURSIVE NearestFrom(_, _, _)
NearestFrom(dist, k, taken) ==
  LET cand == {i \in 1..Len(dist) : i \notin taken} IN
  IF k <= 0 \/ cand = {} THEN <<>>
  ELSE LET best == CHOOSE i \in cand : \A j \in cand :
                     dist[i] < dist[j] \/ (dist[i] = dist[j] /\ i <= j)
       IN <<[id |-> best - 1, distance |-> dist[best]]>>
            \o NearestFrom(dist, k - 1, taken \cup {best})

\* DiskAnnIndex.search raises: with no handle it returns before any check;
\* on an open handle the library is called with k as given, and a k that is
\* not positive is rejected or answered with nothing, as the library decides
LibRejects(k) == IF k <= 0 THEN BOOLEAN ELSE {FALSE}
DiskAnn_search_raises_unguarded(idx, k, lib_rejects) ==
  ~idx.static_index.loaded \/ (k <= 0 /\ lib_rejects)
DiskAnn_search_raises(idx, k, lib_rejects) ==
  idx.static_index.loaded /\ k <= 0 /\ lib_rejects

\* (identifiers, distances), best first; empty when no handle is open
DiskAnn_search(idx, q, k) ==
  IF ~idx.static_index.loaded THEN <<>>
  ELSE CHOOSE found \in
         {NearestFrom(dist, k, {}) :
            dist \in {[i \in 1..Len(idx.static_index.rows) |->
                         Distance(idx.static_index.rows[i], q)]}} : TRUE

\* --------------------------------------------------------------- HnswIndex
NoFile == [exists |-> FALSE, rows |-> <<>>]

\* an add that leaves the index as it was
Hnsw_add_skips(ix, vecs) == ix
\* add: the vectors go after the ntotal already there; returns their ids
Hnsw_add(ix, vecs) == ix \o vecs
Hnsw_add_ids(ix, vecs) == [i \in 1..Len(vecs) |-> Len(ix) + i - 1]
Hnsw_size(ix) == Len(ix)
Hnsw_reset(ix) == <<>>
Hnsw_persist(ix) == [exists |-> TRUE, rows |-> ix]
Hnsw_load(ix, file) == IF ~file.exists THEN ix ELSE file.rows

\* squared L2 distance of IndexHNSWFlat
RECURSIVE L2From(_, _, _)
L2From(a, b, i) ==
  IF i > Len(a) \/ i > Len(b) THEN 0
  ELSE (a[i] - b[i]) * (a[i] - b[i]) + L2From(a, b, i + 1)

RECURSIVE HnswNearest(_, _, _)
HnswNearest(dist, k, taken) ==
  LET cand == {i \in 1..Len(dist) : i \notin taken} IN
  IF k <= 0 THEN <<>>
  ELSE IF cand = {} THEN <<-1>> \o HnswNearest(dist, k - 1, taken)
  ELSE LET best == CHOOSE i \in cand : \A j \in cand :
                     dist[i] < dist[j] \/ (dist[i] = dist[j] /\ i <= j)
       IN <<best - 1>> \o HnswNearest(dist, k - 1, taken \cup {best})

\* indices[0] of faiss: k labels, best first, -1 where fewer are indexed
Hnsw_search(ix, q, k) ==
  CHOOSE indices \in
    {HnswNearest(dist, k, {}) :
       dist \in {[i \in 1..Len(ix) |-> L2From(ix[i], q, 1)]}} : TRUE

\* -------------------------------------------------------------------- IdMap
IdMapRow(r, h, m) == [row_id |-> r, vector_hash |-> h, media_id |-> m]
\* primary key row_id, unique vector_hash
idmap_accepts(table, r, h) ==
  /\ \A e \in table : e.row_id # r
  /\ \A e \in table : e.vector_hash # h

\* ---------------------------------------------------------------- state
VARIABLES
  store,            \* the vectors file
  idmap,            \* rows of the idmap table
  index,            \* the DiskAnnIndex object: index_directory, static_index
  pending_rebuild,  \* _pending_rebuild
  hnsw,             \* the in-memory HnswIndex: the vectors added, in id order
  index_path,       \* the persisted HnswIndex file
  movies,           \* committed rows of the movies table
  rebuild_batch,    \* max(1, settings.ann.rebuild_batch)
  lib_disk_index,   \* whether the index builder leaves a file "disk.index"
  in_flight,        \* the coroutines suspended at an await, with their locals
  last,             \* what the step just taken did and returned
  handed_out,       \* row ids returned by appends so far
  since_rebuild,    \* ingests completed since the index was last rebuilt
  fresh             \* no search served since the process (re)started

vars == <<store, idmap, index, pending_rebuild, hnsw, index_path, movies, rebuild_batch, lib_disk_index,
          in_flight, last, handed_out, since_rebuild, fresh>>

\* a coroutine of add_embedding suspended at "await session.flush()"
Suspended(at, r, h, m) == [at |-> at, row_id |-> r, vector_hash |-> h, media_id |-> m]

NoStep == [op |-> "init", ok |-> TRUE, row_id |-> -1,
           rows_before |-> 0, rebuilt |-> FALSE, stale_before |-> FALSE,
           first |-> FALSE, alone |-> FALSE, created |-> FALSE,
           searched |-> -1, hits |-> <<>>, k |-> 0, q |-> <<>>, db_ok |-> TRUE,
           fetched |-> 0, candidates |-> <<>>, min_score |-> <<>>]

Quiescent == in_flight = {}

\* rows the index answers from
IndexRows(idx) == IF idx.static_index.loaded THEN Len(idx.static_index.rows) ELSE 0

\* ------------------------------------------------- batched AnnService
InitCommon ==
  /\ store = <<>>
  /\ idmap = {}
  /\ index = ClearedIndex
  /\ pending_rebuild = FALSE
  /\ in_flight = {}
  /\ last = NoStep
  /\ handed_out = {}
  /\ since_rebuild = 0
  /\ fresh = TRUE

Init ==
  /\ InitCommon
  /\ rebuild_batch \in {Max(1, s) : s \in 0..MaxRebuildBatch}
  /\ lib_disk_index = TRUE
  /\ hnsw = <<>>
  /\ index_path = NoFile
  /\ movies = {}

\* _bootstrap_index
bootstrap_index(idx, f) ==
  IF row_count(f) = 0 THEN DiskAnn_clear(idx)
  ELSE DiskAnn_build(idx, read_all(f), lib_disk_index)

\* media_id = str(uuid4()) of IngestService.ingest: a value no earlier ingest
\* has used; the number of ingests begun so far stands for it
uuid4 == Cardinality(handed_out)

\* add_embedding up to "await session.flush()": append, session.add
AddEmbeddingAppend(vec, h) ==
  /\ Cardinality(in_flight) < MaxInFlight
  /\ row_count(store) < MaxRows
  /\ IF append_accepts(vec)
     THEN /\ store' = append_write(store, vec)
          /\ in_flight' = in_flight \cup {Suspended("flush", append_returns(store, vec), h, uuid4)}
          /\ handed_out' = handed_out \cup {append_returns(store, vec)}
          /\ last' = [NoStep EXCEPT !.op = "append",
                                    !.row_id = append_returns(store, vec),
                                    !.rows_before = row_count(store)]
     ELSE /\ UNCHANGED <<store, in_flight, handed_out>>
          /\ last' = [NoStep EXCEPT !.op = "append", !.ok = FALSE,
                                    !.rows_before = row_count(store)]
  /\ UNCHANGED <<idmap, index, pending_rebuild, rebuild_batch, lib_disk_index,
                 since_rebuild, fresh, hnsw, index_path, movies>>

\* the step before this one was the append of the same call: no other
\* request ran while the call was suspended
RanAlone(c) == last.op = "append" /\ last.ok /\ last.row_id = c.row_id /\ in_flight = {c}

\* add_embedding from the flush to its return or raise
AddEmbeddingFlush(c, db_ok) ==
  /\ c \in in_flight
  /\ c.at = "flush"
  /\ in_flight' = in_flight \ {c}
  /\ IF db_ok /\ idmap_accepts(idmap, c.row_id, c.vector_hash)
     THEN /\ idmap' = idmap \cup {IdMapRow(c.row_id, c.vector_hash, c.media_id)}
          /\ IF row_count(store) % rebuild_batch = 0
             THEN /\ index' = DiskAnn_build(index, read_all(store), lib_disk_index)
                  /\ pending_rebuild' = FALSE
                  /\ since_rebuild' = 0
             ELSE /\ pending_rebuild' = TRUE
                  /\ since_rebuild' = since_rebuild + 1
                  /\ UNCHANGED index
          /\ last' = [NoStep EXCEPT !.op = "add_embedding",
                                    !.row_id = c.row_id,
                                    !.rows_before = since_rebuild + 1,
                                    !.alone = RanAlone(c),
                                    !.stale_before = pending_rebuild,
                                    !.rebuilt = (row_count(store) % rebuild_batch = 0)]
     ELSE /\ UNCHANGED <<idmap, index, pending_rebuild, since_rebuild>>
          /\ last' = [NoStep EXCEPT !.op = "add_embedding", !.ok = FALSE,
                                    !.db_ok = db_ok,
                                    !.row_id = c.row_id,
                                    !.rows_before = since_rebuild,
                                    !.stale_before = pending_rebuild]
  /\ UNCHANGED <<store, rebuild_batch, lib_disk_index, handed_out, fresh, hnsw, index_path, movies>>

\* AnnService.search
Search(q, k, lib_rejects) ==
  \E idx \in {IF pending_rebuild
               THEN DiskAnn_build(index, read_all(store), lib_disk_index)
               ELSE index} :
  \E raises \in {row_count(store) # 0 /\ DiskAnn_search_raises(idx, k, lib_rejects)} :
  \E found \in {IF row_count(store) = 0 \/ raises THEN <<>> ELSE DiskAnn_search(idx, q, k)} :
  \E results \in {[i \in 1..Len(found) |->
                     [row_id |-> found[i].id, score |-> 1 - found[i].distance]]} :
     /\ index' = idx
     /\ pending_rebuild' = FALSE
     /\ since_rebuild' = IF pending_rebuild THEN 0 ELSE since_rebuild
     /\ fresh' = FALSE
     /\ last' = [NoStep EXCEPT !.op = "search", !.ok = ~raises, !.k = k,
                               !.q = q, !.fetched = k,
                               !.rebuilt = pending_rebuild,
                               !.stale_before = pending_rebuild,
                               !.first = fresh,
                               !.rows_before = row_count(store),
                               !.searched = IndexRows(idx),
                               !.hits = PySlice(results, k)]
     /\ UNCHANGED <<store, idmap, rebuild_batch, lib_disk_index, in_flight, handed_out,
                    hnsw, index_path, movies>>

\* mapping.get(res.row_id, (None, None)) over the rows of idmap
None == "None"
IdMapGet(table, r) ==
  IF \E e \in table : e.row_id = r
  THEN LET e == CHOOSE e \in table : e.row_id = r
       IN [vector_hash |-> e.vector_hash, media_id |-> e.media_id]
  ELSE [vector_hash |-> None, media_id |-> None]

\* the list resolve_media returns for the results of a search
resolve_media(table, results) ==
  [i \in 1..Len(results) |->
     [row_id |-> results[i].row_id, score |-> results[i].score,
      vector_hash |-> IdMapGet(table, results[i].row_id).vector_hash,
      media_id |-> IdMapGet(table, results[i].row_id).media_id]]

\* AnnService.resolve_media on the candidates the search before it returned
ResolveMedia ==
  /\ last.op = "search"
  /\ last.ok
  /\ last' = [last EXCEPT !.op = "resolve", !.hits = resolve_media(idmap, last.hits)]
  /\ UNCHANGED <<store, idmap, index, pending_rebuild, rebuild_batch, lib_disk_index,
                 in_flight, handed_out, since_rebuild, fresh, hnsw, index_path, movies>>

\* the process stops (suspended requests are lost) and a new AnnService is
\* constructed: __init__ with _bootstrap_index
Restart ==
  /\ in_flight' = {}
  /\ pending_rebuild' = FALSE
  /\ index' = bootstrap_index([index EXCEPT !.static_index = NoHandle], store)
  /\ since_rebuild' = 0
  /\ fresh' = TRUE
  /\ last' = [NoStep EXCEPT !.op = "restart", !.rebuilt = (row_count(store) # 0),
                            !.rows_before = row_count(store)]
  /\ UNCHANGED <<store, idmap, rebuild_batch, lib_disk_index, handed_out, hnsw, index_path, movies>>

Next ==
  \/ \E vec \in InputVectors : AddEmbeddingAppend(vec, blake3(vec))
  \/ \E c \in in_flight, db_ok \in BOOLEAN : AddEmbeddingFlush(c, db_ok)
  \/ \E q \in ValidVectors, k \in Ks : \E lib_rejects \in LibRejects(k) :
        Search(q, k, lib_rejects)
  \/ Restart

Spec == Init /\ [][Next]_vars

\* the service with resolve_media, which reads idmap and changes nothing
NextResolve == Next \/ ResolveMedia

SpecResolve == Init /\ [][NextResolve]_vars

\* add_embedding takes vector and vector_hash as two arguments: the same
\* service called with a hash that is not the digest of the vector
NextAnyPair ==
  \/ Next
  \/ \E vec \in ValidVectors : \E other \in ValidVectors \ {vec} :
        AddEmbeddingAppend(vec, blake3(other))

SpecAnyPair == Init /\ [][NextAnyPair]_vars

\* --------------------------------------------------- eager AnnService
\* variables of the other drafts that the eager service does not have
BatchedUnused == <<index, pending_rebuild, rebuild_batch, lib_disk_index, since_rebuild, movies>>

\* _ensure_index_consistency: the index afterwards, and whether it persisted
ensure_rebuilds(ix, f) ==
  /\ ~(row_count(f) = 0 /\ Hnsw_size(ix) = 0)
  /\ row_count(f) # Hnsw_size(ix)
ensure_index_consistency(ix, f) ==
  IF ensure_rebuilds(ix, f)
  THEN (IF Len(read_all(f)) # 0 THEN Hnsw_add(Hnsw_reset(ix), read_all(f)) ELSE Hnsw_reset(ix))
  ELSE ix

InitEager ==
  /\ InitCommon
  /\ rebuild_batch = 1
  /\ lib_disk_index = TRUE
  /\ hnsw = <<>>
  /\ index_path = Hnsw_persist(<<>>)
  /\ movies = {}

\* a comparison that never reports a mismatch
index_id_mismatch_ignored(index_id, row_id) == FALSE
\* if index_id != row_id: raise RuntimeError("Index id mismatch ...")
index_id_mismatch(index_id, row_id) == index_id # row_id

\* add_embedding up to "await session.flush()": append to the store, add to
\* the index, compare the two ids, session.add
EagerAddAppend(vec, h) ==
  /\ Cardinality(in_flight) < MaxInFlight
  /\ row_count(store) < MaxRows
  /\ IF ~append_accepts(vec)
     THEN /\ UNCHANGED <<store, hnsw, in_flight, handed_out>>
          /\ last' = [NoStep EXCEPT !.op = "append", !.ok = FALSE,
                                    !.rows_before = row_count(store)]
     ELSE LET row_id == append_returns(store, vec)
              ids == Hnsw_add_ids(hnsw, <<vec>>)
              index_id == ids[Len(ids)]
          IN /\ store' = append_write(store, vec)
             /\ hnsw' = Hnsw_add(hnsw, <<vec>>)
             /\ handed_out' = handed_out \cup {row_id}
             /\ IF index_id_mismatch(index_id, row_id)
                THEN /\ UNCHANGED in_flight
                     /\ last' = [NoStep EXCEPT !.op = "add_embedding", !.ok = FALSE,
                                               !.row_id = row_id,
                                               !.rows_before = row_count(store)]
                ELSE /\ in_flight' = in_flight \cup {Suspended("flush", row_id, h, uuid4)}
                     /\ last' = [NoStep EXCEPT !.op = "append", !.row_id = row_id,
                                               !.rows_before = row_count(store)]
  /\ UNCHANGED <<idmap, index_path, fresh>>
  /\ UNCHANGED BatchedUnused

\* add_embedding from the flush to its return or raise: flush, persist
EagerAddFlush(c, db_ok) ==
  /\ c \in in_flight
  /\ c.at = "flush"
  /\ in_flight' = in_flight \ {c}
  /\ IF db_ok /\ idmap_accepts(idmap, c.row_id, c.vector_hash)
     THEN /\ idmap' = idmap \cup {IdMapRow(c.row_id, c.vector_hash, c.media_id)}
          /\ index_path' = Hnsw_persist(hnsw)
          /\ last' = [NoStep EXCEPT !.op = "add_embedding", !.row_id = c.row_id,
                                    !.alone = RanAlone(c)]
     ELSE /\ UNCHANGED <<idmap, index_path>>
          /\ last' = [NoStep EXCEPT !.op = "add_embedding", !.ok = FALSE,
                                    !.db_ok = db_ok, !.row_id = c.row_id]
  /\ UNCHANGED <<store, hnsw, handed_out, fresh>>
  /\ UNCHANGED BatchedUnused

\* mm[row_ids] on the (count, dim) memmap: an id outside -count..count-1 is
\* an IndexError, an id in -count..-1 counts from the end
PyIndex(count, i) == IF i < 0 THEN count + i ELSE i
read_rows_raises(f, row_ids) ==
  /\ Len(row_ids) > 0
  /\ row_count(f) > 0
  /\ \E i \in 1..Len(row_ids) :
        row_ids[i] >= row_count(f) \/ row_ids[i] < 0 - row_count(f)

\* read_rows: the rows at the ids asked, in the order asked
read_rows(f, row_ids) ==
  IF Len(row_ids) = 0 \/ row_count(f) = 0 THEN <<>>
  ELSE [i \in 1..Len(row_ids) |-> Row(f, PyIndex(row_count(f), row_ids[i]))]

\* [int(idx) for idx in indices if idx >= 0]
RECURSIVE ValidIds(_)
ValidIds(indices) ==
  IF indices = <<>> THEN <<>>
  ELSE (IF Head(indices) >= 0 THEN <<Head(indices)>> ELSE <<>>) \o ValidIds(Tail(indices))

\* np.argsort(-sims): positions by descending similarity
RECURSIVE ArgsortDesc(_, _)
ArgsortDesc(sims, taken) ==
  LET cand == {i \in 1..Len(sims) : i \notin taken} IN
  IF cand = {} THEN <<>>
  ELSE LET best == CHOOSE i \in cand : \A j \in cand :
                     sims[i] > sims[j] \/ (sims[i] = sims[j] /\ i <= j)
       IN <<best>> \o ArgsortDesc(sims, taken \cup {best})

\* AnnService.search of the eager service
EagerSearchHits(q, k) ==
  IF Hnsw_size(hnsw) = 0 THEN <<>>
  ELSE LET candidates_k == Max(k, RefineCandidates)
           indices == Hnsw_search(hnsw, q, candidates_k)
           valid_ids == ValidIds(indices)
           vectors == read_rows(store, valid_ids)
           sims == [i \in 1..Len(vectors) |-> Dot(vectors[i], q)]
           sorted == ArgsortDesc(sims, {})
           order == PySlice(sorted, k)
       IN IF Len(valid_ids) = 0 \/ Len(vectors) = 0 THEN <<>>
          ELSE [i \in 1..Len(order) |->
                  [row_id |-> valid_ids[order[i]], score |-> sims[order[i]]]]

EagerSearch(q, k) ==
  /\ last' = [NoStep EXCEPT !.op = "search", !.first = fresh, !.k = k,
                            !.q = q, !.fetched = Max(k, RefineCandidates),
                            !.rows_before = row_count(store),
                            !.searched = Hnsw_size(hnsw),
                            !.hits = EagerSearchHits(q, k)]
  /\ fresh' = FALSE
  /\ UNCHANGED <<store, idmap, hnsw, index_path, in_flight, handed_out>>
  /\ UNCHANGED BatchedUnused

\* the explicit consistency check, run on the live service
EnsureIndexConsistency ==
  /\ hnsw' = ensure_index_consistency(hnsw, store)
  /\ index_path' = IF ensure_rebuilds(hnsw, store) THEN Hnsw_persist(hnsw') ELSE index_path
  /\ last' = [NoStep EXCEPT !.op = "check", !.rebuilt = ensure_rebuilds(hnsw, store),
                            !.rows_before = row_count(store)]
  /\ UNCHANGED <<store, idmap, in_flight, handed_out, fresh>>
  /\ UNCHANGED BatchedUnused

\* the process stops and a new AnnService is constructed: load, persist when
\* no file exists, _ensure_index_consistency
EagerRestart ==
  LET loaded == Hnsw_load(<<>>, index_path)
      created == IF ~index_path.exists THEN Hnsw_persist(loaded) ELSE index_path
  IN /\ hnsw' = ensure_index_consistency(loaded, store)
     /\ index_path' = IF ensure_rebuilds(loaded, store) THEN Hnsw_persist(hnsw') ELSE created
     /\ in_flight' = {}
     /\ fresh' = TRUE
     /\ last' = [NoStep EXCEPT !.op = "restart", !.rebuilt = ensure_rebuilds(loaded, store),
                               !.rows_before = row_count(store)]
     /\ UNCHANGED <<store, idmap, handed_out>>
     /\ UNCHANGED BatchedUnused

\* HnswIndex.reset called on the live index
ResetIndex ==
  /\ hnsw # <<>>
  /\ hnsw' = Hnsw_reset(hnsw)
  /\ last' = [NoStep EXCEPT !.op = "reset", !.rows_before = row_count(store)]
  /\ UNCHANGED <<store, idmap, index_path, in_flight, handed_out, fresh>>
  /\ UNCHANGED BatchedUnused

NextEager ==
  \/ \E vec \in InputVectors : EagerAddAppend(vec, blake3(vec))
  \/ \E c \in in_flight, db_ok \in BOOLEAN : EagerAddFlush(c, db_ok)
  \/ \E q \in ValidVectors, k \in Ks : EagerSearch(q, k)
  \/ EnsureIndexConsistency
  \/ EagerRestart

SpecEager == InitEager /\ [][NextEager]_vars

NextEagerReset == NextEager \/ ResetIndex

SpecEagerReset == InitEager /\ [][NextEagerReset]_vars

\* the service as the program drives it (the consistency check runs in the
\* constructor only), with an index that can lose its rows
NextEagerMismatch ==
  \/ \E vec \in InputVectors : EagerAddAppend(vec, blake3(vec))
  \/ \E c \in in_flight, db_ok \in BOOLEAN : EagerAddFlush(c, db_ok)
  \/ \E q \in ValidVectors, k \in Ks : EagerSearch(q, k)
  \/ EagerRestart
  \/ ResetIndex

SpecEagerMismatch == InitEager /\ [][NextEagerMismatch]_vars

\* ------------------------------------- movie index and ingest_catalog_movie
FileHashes == {"f1", "f2"}

\* embedding.vector_hash of the text embedding: the digest of the vector

\* variables of the other drafts that the movie index does not have
EagerUnused == <<hnsw, index_path, since_rebuild>>

\* ingest_catalog_movie suspended at an await, with its locals
MovieCoroutine(at, r, fh, eh, id) ==
  [at |-> at, row_id |-> r, file_hash |-> fh, vector_hash |-> eh, media_id |-> id]

\* _ensure_index_built: the index afterwards (the flag is cleared whenever
\* the store is empty or the index is rebuilt)
ensure_builds(idx, pending, f) ==
  /\ row_count(f) # 0
  /\ (pending \/ ~idx.index_directory.disk_index)
ensure_index_built(idx, pending, f) ==
  IF row_count(f) = 0 THEN DiskAnn_clear(idx)
  ELSE IF ensure_builds(idx, pending, f)
       THEN (IF Len(read_all(f)) > 0
             THEN DiskAnn_build(idx, read_all(f), lib_disk_index) ELSE idx)
       ELSE idx
ensure_pending(idx, pending, f) ==
  IF row_count(f) = 0 \/ ensure_builds(idx, pending, f) THEN FALSE ELSE pending

InitMovies ==
  /\ InitCommon
  /\ rebuild_batch \in {Max(1, s) : s \in 0..MaxRebuildBatch}
  /\ lib_disk_index \in BOOLEAN
  /\ hnsw = <<>>
  /\ index_path = NoFile
  /\ movies = {}

\* a lookup by file hash alone
existing_movie_by_file_only(stored, fh, eh) == \E mv \in stored : mv.file_hash = fh
\* the two duplicate lookups: select(Movie) by file_hash, then by embedding_hash
existing_movie(stored, fh, eh) ==
  \E mv \in stored : mv.file_hash = fh \/ mv.embedding_hash = eh

\* ingest_catalog_movie up to "await session.flush()" of the Movie row: the
\* two duplicate lookups, then vector_index.append (store append and the
\* rebuild policy), session.add(movie)
MovieIngestBegin(fh, vec) ==
  /\ Cardinality(in_flight) < MaxInFlight
  /\ row_count(store) < MaxRows
  /\ append_accepts(vec)
  /\ IF existing_movie(movies, fh, blake3(vec))
     THEN /\ UNCHANGED <<store, index, pending_rebuild, in_flight, handed_out>>
          /\ last' = [NoStep EXCEPT !.op = "ingest", !.rows_before = row_count(store),
                                    !.q = <<fh, blake3(vec)>>]
     ELSE LET row_id == append_returns(store, vec)
              f == append_write(store, vec)
              at_batch == row_count(f) % rebuild_batch = 0
          IN /\ store' = f
             /\ index' = IF at_batch THEN ensure_index_built(index, pending_rebuild, f)
                         ELSE index
             /\ pending_rebuild' = IF at_batch THEN ensure_pending(index, pending_rebuild, f)
                                   ELSE TRUE
             /\ handed_out' = handed_out \cup {row_id}
             /\ in_flight' = in_flight \cup {MovieCoroutine("flush", row_id, fh, blake3(vec), uuid4)}
             /\ last' = [NoStep EXCEPT !.op = "vector_index.append", !.row_id = row_id,
                                       !.q = <<fh, blake3(vec)>>,
                                       !.rows_before = row_count(store),
                                       !.stale_before = pending_rebuild,
                                       !.rebuilt = (at_batch /\ ensure_builds(index, pending_rebuild, f))]
  /\ UNCHANGED <<idmap, movies, rebuild_batch, lib_disk_index, fresh>>
  /\ UNCHANGED EagerUnused

\* ingest_catalog_movie from the flush of the Movie row to its return:
\* session.add(IdMap(...)) without a flush, then the created result
MovieIngestReturn(c, db_ok) ==
  /\ c \in in_flight
  /\ c.at = "flush"
  /\ IF db_ok
     THEN /\ in_flight' = (in_flight \ {c}) \cup {[c EXCEPT !.at = "commit"]}
          /\ last' = [NoStep EXCEPT !.op = "ingest", !.created = TRUE, !.row_id = c.row_id]
     ELSE /\ in_flight' = in_flight \ {c}
          /\ last' = [NoStep EXCEPT !.op = "ingest", !.ok = FALSE, !.row_id = c.row_id]
  /\ UNCHANGED <<store, idmap, movies, index, pending_rebuild, rebuild_batch,
                 lib_disk_index, handed_out, fresh>>
  /\ UNCHANGED EagerUnused

\* the router's "await session.commit()": the Movie and IdMap rows are
\* inserted, or the transaction is rolled back and the request fails
MovieCommit(c, db_ok) ==
  /\ c \in in_flight
  /\ c.at = "commit"
  /\ in_flight' = in_flight \ {c}
  /\ IF db_ok /\ idmap_accepts(idmap, c.row_id, c.vector_hash)
     THEN /\ idmap' = idmap \cup {IdMapRow(c.row_id, c.vector_hash, c.media_id)}
          /\ movies' = movies \cup {[id |-> c.media_id, file_hash |-> c.file_hash,
                                     embedding_hash |-> c.vector_hash]}
          /\ last' = [NoStep EXCEPT !.op = "commit", !.row_id = c.row_id]
     ELSE /\ UNCHANGED <<idmap, movies>>
          /\ last' = [NoStep EXCEPT !.op = "commit", !.ok = FALSE, !.row_id = c.row_id]
  /\ UNCHANGED <<store, index, pending_rebuild, rebuild_batch,
                 lib_disk_index, handed_out, fresh>>
  /\ UNCHANGED EagerUnused

\* vector_index.search
MovieSearch(q, k, lib_rejects) ==
  \E idx \in {ensure_index_built(index, pending_rebuild, store)} :
  \E raises \in {row_count(store) # 0 /\ DiskAnn_search_raises(idx, k, lib_rejects)} :
  \E found \in {IF row_count(store) = 0 \/ raises THEN <<>> ELSE DiskAnn_search(idx, q, k)} :
     /\ index' = idx
     /\ pending_rebuild' = ensure_pending(index, pending_rebuild, store)
     /\ fresh' = FALSE
     /\ last' = [NoStep EXCEPT !.op = "search", !.ok = ~raises, !.k = k,
                               !.rebuilt = ensure_builds(index, pending_rebuild, store),
                               !.stale_before = pending_rebuild,
                               !.first = fresh,
                               !.rows_before = row_count(store),
                               !.searched = IndexRows(idx),
                               !.hits = [i \in 1..Len(found) |->
                                           [row_id |-> found[i].id,
                                            score |-> found[i].distance]]]
     /\ UNCHANGED <<store, idmap, movies, rebuild_batch, lib_disk_index, in_flight, handed_out>>
     /\ UNCHANGED EagerUnused

\* the process stops and the module is imported again: a new DiskAnnIndex
\* object on the same directory, _pending_rebuild = False
MovieRestart ==
  /\ in_flight' = {}
  /\ pending_rebuild' = FALSE
  /\ index' = [index EXCEPT !.static_index = NoHandle]
  /\ fresh' = TRUE
  /\ last' = [NoStep EXCEPT !.op = "restart", !.rows_before = row_count(store)]
  /\ UNCHANGED <<store, idmap, movies, rebuild_batch, lib_disk_index, handed_out>>
  /\ UNCHANGED EagerUnused

NextMovies ==
  \/ \E fh \in FileHashes, vec \in ValidVectors : MovieIngestBegin(fh, vec)
  \/ \E c \in in_flight, db_ok \in BOOLEAN : MovieIngestReturn(c, db_ok)
  \/ \E c \in in_flight, db_ok \in BOOLEAN : MovieCommit(c, db_ok)
  \/ \E q \in ValidVectors, k \in Ks : \E lib_rejects \in LibRejects(k) :
        MovieSearch(q, k, lib_rejects)
  \/ MovieRestart

SpecMovies == InitMovies /\ [][NextMovies]_vars

\* ------------------------------------------------ MovieLocalSearchService
\* min_score: None (the empty sequence) or a threshold <<m>> on the score the
\* vector search returned
MinScores == {<<>>, <<1>>}

\* _resolve_movies: the candidates that have an IdMap row whose media_id
\* is the id of a stored movie, in the order of the vector search
RECURSIVE resolve_ordered(_, _, _)
resolve_ordered(found, table, stored) ==
  IF found = <<>> THEN <<>>
  ELSE LET c == Head(found)
           rest == resolve_ordered(Tail(found), table, stored)
       IN IF \E e \in table : e.row_id = c.row_id /\ \E mv \in stored : mv.id = e.media_id
          THEN LET e == CHOOSE e \in table : e.row_id = c.row_id
               IN <<[movie_id |-> e.media_id, score |-> c.score,
                     vector_hash |-> e.vector_hash]>> \o rest
          ELSE rest

\* "Deduplicate by movie id while preserving order"
RECURSIVE unique_movies(_, _)
unique_movies(ordered, seen) ==
  IF ordered = <<>> THEN <<>>
  ELSE IF Head(ordered).movie_id \in seen THEN unique_movies(Tail(ordered), seen)
       ELSE <<Head(ordered)>>
              \o unique_movies(Tail(ordered), seen \cup {Head(ordered).movie_id})

resolve_movies(found, table, stored) ==
  IF found = <<>> THEN <<>>
  ELSE unique_movies(resolve_ordered(found, table, stored), {})

\* the loop without its "if count >= limit: break"
RECURSIVE collect_hits_unbounded(_, _, _, _)
collect_hits_unbounded(resolved, limit, min_score, count) ==
  IF resolved = <<>> THEN <<>>
  ELSE IF min_score # <<>> /\ Head(resolved).score < min_score[1]
       THEN collect_hits_unbounded(Tail(resolved), limit, min_score, count)
       ELSE <<Head(resolved)>>
              \o collect_hits_unbounded(Tail(resolved), limit, min_score, count + 1)

\* the loop of search over the resolved movies: skip a score below
\* min_score, append, stop once count >= limit
RECURSIVE collect_hits(_, _, _, _)
collect_hits(resolved, limit, min_score, count) ==
  IF resolved = <<>> THEN <<>>
  ELSE IF min_score # <<>> /\ Head(resolved).score < min_score[1]
       THEN collect_hits(Tail(resolved), limit, min_score, count)
       ELSE IF count + 1 >= limit THEN <<Head(resolved)>>
            ELSE <<Head(resolved)>>
                   \o collect_hits(Tail(resolved), limit, min_score, count + 1)

\* MovieLocalSearchService.search for a query that embeds to q
MovieLocalSearch(q, limit, min_score, lib_rejects) ==
  \E fetch_k \in {Max(limit * 2, limit)} :
  \E idx \in {ensure_index_built(index, pending_rebuild, store)} :
  \E raises \in {row_count(store) # 0 /\ DiskAnn_search_raises(idx, fetch_k, lib_rejects)} :
  \E found \in {IF row_count(store) = 0 \/ raises THEN <<>>
                 ELSE DiskAnn_search(idx, q, fetch_k)} :
  \E cands \in {[i \in 1..Len(found) |->
                   [row_id |-> found[i].id, score |-> found[i].distance]]} :
     /\ index' = idx
     /\ pending_rebuild' = ensure_pending(index, pending_rebuild, store)
     /\ fresh' = FALSE
     /\ last' = [NoStep EXCEPT !.op = "local_search", !.ok = ~raises, !.k = limit,
                               !.min_score = min_score,
                               !.candidates = cands,
                               !.hits = collect_hits(resolve_movies(cands, idmap, movies),
                                                     limit, min_score, 0)]
     /\ UNCHANGED <<store, idmap, movies, rebuild_batch, lib_disk_index, in_flight, handed_out>>
     /\ UNCHANGED EagerUnused

\* the searches of a library that is filled by one ingest at a time
NextLocalSearch ==
  \/ \E fh \in FileHashes, vec \in ValidVectors : Quiescent /\ MovieIngestBegin(fh, vec)
  \/ \E c \in in_flight, db_ok \in BOOLEAN : MovieIngestReturn(c, db_ok)
  \/ \E c \in in_flight, db_ok \in BOOLEAN : MovieCommit(c, db_ok)
  \/ \E q \in ValidVectors, limit \in Ks, min_score \in MinScores :
        \E lib_rejects \in LibRejects(Max(limit * 2, limit)) :
          MovieLocalSearch(q, limit, min_score, lib_rejects)
  \/ MovieRestart

SpecLocalSearch == InitMovies /\ [][NextLocalSearch]_vars

\* ------------------------------------------------ VectorStore on its own
\* The store driven directly: append of any array a caller can hand over,
\* the readers, and an append cut short by a crash or a full disk.
ServiceVars == <<idmap, index, pending_rebuild, hnsw, index_path, movies, rebuild_batch,
                 lib_disk_index, in_flight, handed_out, since_rebuild, fresh>>

\* np.asarray(vector): the shape and the cells in C order
Array1(vec) == [shape |-> <<Len(vec)>>, data |-> vec]
RECURSIVE Flatten(_)
Flatten(rows) == IF rows = <<>> THEN <<>> ELSE Head(rows) \o Flatten(Tail(rows))
Array2(rows, d) == [shape |-> <<Len(rows), d>>, data |-> Flatten(rows)]
Array0 == [shape |-> <<>>, data |-> <<0>>]

RECURSIVE SeqsOf(_, _)
SeqsOf(S, n) ==
  IF n = 0 THEN {<<>>}
  ELSE LET shorter == SeqsOf(S, n - 1)
       IN shorter \cup {Append(t, x) : t \in {u \in shorter : Len(u) = n - 1}, x \in S}

AppendInputs ==
  {Array1(v) : v \in InputVectors}
    \cup {Array2(rows, Dim) : rows \in SeqsOf(ValidVectors, MaxBatch)}
    \cup {Array0}

\* vec.shape[-1] != self.dim, with the IndexError of a 0-d array
ndarray_append_accepts(a) == Len(a.shape) >= 1 /\ a.shape[Len(a.shape)] = Dim

\* a file whose size is not a whole number of records
Torn(f) == st_size(f) % record_bytes # 0

InitStore ==
  /\ InitCommon
  /\ rebuild_batch = 1
  /\ lib_disk_index = TRUE
  /\ hnsw = <<>>
  /\ index_path = NoFile
  /\ movies = {}

\* VectorStore.append
StoreAppend(a) ==
  /\ Len(store) + Len(a.data) <= MaxRows * Dim
  /\ IF ndarray_append_accepts(a)
     THEN /\ store' = append_write(store, a.data)
          /\ last' = [NoStep EXCEPT !.op = "append",
                                    !.row_id = append_returns(store, a.data),
                                    !.rows_before = row_count(store),
                                    !.q = a.data]
     ELSE /\ UNCHANGED store
          /\ last' = [NoStep EXCEPT !.op = "append", !.ok = FALSE,
                                    !.rows_before = row_count(store)]
  /\ UNCHANGED ServiceVars

\* the write of append stopped after c cells of the record
StoreAppendCutShort(vec, c) ==
  /\ Len(store) + Dim <= MaxRows * Dim
  /\ store' = store \o SubSeq(vec, 1, c)
  /\ last' = [NoStep EXCEPT !.op = "cut_short", !.ok = FALSE,
                            !.rows_before = row_count(store)]
  /\ UNCHANGED ServiceVars

\* VectorStore.row_count
StoreRowCount ==
  /\ last' = [NoStep EXCEPT !.op = "row_count", !.row_id = row_count(store),
                            !.rows_before = row_count(store)]
  /\ UNCHANGED store
  /\ UNCHANGED ServiceVars

\* VectorStore.read_all
StoreReadAll ==
  /\ last' = [NoStep EXCEPT !.op = "read_all", !.hits = read_all(store),
                            !.rows_before = row_count(store)]
  /\ UNCHANGED store
  /\ UNCHANGED ServiceVars

\* the row ids a caller can hand to read_rows
RowIds == (0 - MaxRows)..MaxRows
RowIdLists == SeqsOf(RowIds, MaxIds)

\* VectorStore.read_rows
StoreReadRows(row_ids) ==
  /\ last' = [NoStep EXCEPT !.op = "read_rows",
                            !.ok = ~read_rows_raises(store, row_ids),
                            !.hits = IF read_rows_raises(store, row_ids) THEN <<>>
                                     ELSE read_rows(store, row_ids),
                            !.rows_before = row_count(store),
                            !.q = row_ids]
  /\ UNCHANGED store
  /\ UNCHANGED ServiceVars

NextStore ==
  \/ \E a \in AppendInputs : StoreAppend(a)
  \/ \E row_ids \in RowIdLists : StoreReadRows(row_ids)
  \/ \E vec \in ValidVectors, c \in 1..(Dim - 1) : StoreAppendCutShort(vec, c)
  \/ StoreRowCount
  \/ StoreReadAll

SpecStore == InitStore /\ [][NextStore]_vars

\* --------------------------------------------- the index backends on their own
\* build, search, persist, clear, load, search again, on an index object of
\* either backend over the rows of a vectors file
StoreFiles == {Flatten(rows) : rows \in SeqsOf(ValidVectors, MaxRows)}
IndexVars == <<store, idmap, pending_rebuild, movies, rebuild_batch, lib_disk_index,
               in_flight, handed_out, since_rebuild, fresh>>

InitRoundTrip ==
  /\ store \in StoreFiles
  /\ idmap = {}
  /\ index = ClearedIndex
  /\ pending_rebuild = FALSE
  /\ in_flight = {}
  /\ last = NoStep
  /\ handed_out = {}
  /\ since_rebuild = 0
  /\ fresh = TRUE
  /\ rebuild_batch = 1
  /\ lib_disk_index = TRUE
  /\ hnsw = <<>>
  /\ index_path = NoFile
  /\ movies = {}

\* DiskAnnIndex.build(vectors); the index directory is its persisted form
DiskAnnBuild ==
  /\ last.op = "init"
  /\ index' = DiskAnn_build(index, read_all(store), lib_disk_index)
  /\ last' = [NoStep EXCEPT !.op = "DiskAnnIndex.build"]
  /\ UNCHANGED <<hnsw, index_path>>
  /\ UNCHANGED IndexVars

\* DiskAnnIndex.search(q, k)
DiskAnnSearch(q, k) ==
  /\ last.op = "DiskAnnIndex.build"
  /\ last' = [NoStep EXCEPT !.op = "DiskAnnIndex.search", !.q = q, !.k = k,
                            !.hits = DiskAnn_search(index, q, k)]
  /\ UNCHANGED <<index, hnsw, index_path>>
  /\ UNCHANGED IndexVars

\* DiskAnnIndex.clear()
DiskAnnClear ==
  /\ last.op = "DiskAnnIndex.search"
  /\ index' = DiskAnn_clear(index)
  /\ last' = [last EXCEPT !.op = "DiskAnnIndex.clear"]
  /\ UNCHANGED <<hnsw, index_path>>
  /\ UNCHANGED IndexVars

\* DiskAnnIndex.load()
DiskAnnLoad ==
  /\ last.op = "DiskAnnIndex.clear"
  /\ index' = DiskAnn_load(index)
  /\ last' = [last EXCEPT !.op = "DiskAnnIndex.load"]
  /\ UNCHANGED <<hnsw, index_path>>
  /\ UNCHANGED IndexVars

\* DiskAnnIndex.search with the query and k of the search before clear
DiskAnnSearchAgain ==
  /\ last.op = "DiskAnnIndex.load"
  /\ last' = [last EXCEPT !.op = "DiskAnnIndex.search_again",
                          !.hits = DiskAnn_search(index, last.q, last.k)]
  /\ UNCHANGED <<index, hnsw, index_path>>
  /\ UNCHANGED IndexVars

\* HnswIndex: reset and add of all rows, as _ensure_index_consistency builds
HnswBuild ==
  /\ last.op = "init"
  /\ hnsw' = Hnsw_add(Hnsw_reset(hnsw), read_all(store))
  /\ last' = [NoStep EXCEPT !.op = "HnswIndex.add"]
  /\ UNCHANGED <<index, index_path>>
  /\ UNCHANGED IndexVars

\* HnswIndex.search(q, k)
HnswSearch(q, k) ==
  /\ last.op = "HnswIndex.add"
  /\ last' = [NoStep EXCEPT !.op = "HnswIndex.search", !.q = q, !.k = k,
                            !.hits = Hnsw_search(hnsw, q, k)]
  /\ UNCHANGED <<index, hnsw, index_path>>
  /\ UNCHANGED IndexVars

\* HnswIndex.persist(path)
HnswPersist ==
  /\ last.op = "HnswIndex.search"
  /\ index_path' = Hnsw_persist(hnsw)
  /\ last' = [last EXCEPT !.op = "HnswIndex.persist"]
  /\ UNCHANGED <<index, hnsw>>
  /\ UNCHANGED IndexVars

\* HnswIndex.reset()
HnswReset ==
  /\ last.op = "HnswIndex.persist"
  /\ hnsw' = Hnsw_reset(hnsw)
  /\ last' = [last EXCEPT !.op = "HnswIndex.reset"]
  /\ UNCHANGED <<index, index_path>>
  /\ UNCHANGED IndexVars

\* HnswIndex.load(path)
HnswLoad ==
  /\ last.op = "HnswIndex.reset"
  /\ hnsw' = Hnsw_load(hnsw, index_path)
  /\ last' = [last EXCEPT !.op = "HnswIndex.load"]
  /\ UNCHANGED <<index, index_path>>
  /\ UNCHANGED IndexVars

\* HnswIndex.search with the query and k of the search before reset
HnswSearchAgain ==
  /\ last.op = "HnswIndex.load"
  /\ last' = [last EXCEPT !.op = "HnswIndex.search_again",
                          !.hits = Hnsw_search(hnsw, last.q, last.k)]
  /\ UNCHANGED <<index, hnsw, index_path>>
  /\ UNCHANGED IndexVars

NextRoundTrip ==
  \/ DiskAnnBuild
  \/ \E q \in ValidVectors, k \in 1..MaxK : DiskAnnSearch(q, k)
  \/ DiskAnnClear
  \/ DiskAnnLoad
  \/ DiskAnnSearchAgain
  \/ HnswBuild
  \/ \E q \in ValidVectors, k \in 1..MaxK : HnswSearch(q, k)
  \/ HnswPersist
  \/ HnswReset
  \/ HnswLoad
  \/ HnswSearchAgain

SpecRoundTrip == InitRoundTrip /\ [][NextRoundTrip]_vars

\* ---------------------------------------------------- canonicalize_vector
\* A vector of float32 cells, a cell being its sign bit and its magnitude, so
\* that 0.0 and -0.0 are two cells with one value. The magnitude of an input
\* cell is an integer; that of a canonical cell counts units of
\* 10^-decimals. Normalisation does not depend on the unit, so the one
\* operator takes both. The arithmetic is the exact one.
CanonDim == 3
MaxComp == 4
MaxNegComp == 1
\* round_eps = 10^-Decimals
Decimals == 1

Cell(s, m) == [neg |-> s, mag |-> m]
CellValue(c) == IF c.neg THEN 0 - c.mag ELSE c.mag
CanonCells ==
  {Cell(FALSE, m) : m \in 0..MaxComp} \cup {Cell(TRUE, m) : m \in 0..MaxNegComp}
CanonInputs == [1..CanonDim -> CanonCells]

RECURSIVE Pow10(_)
Pow10(n) == IF n = 0 THEN 1 ELSE 10 * Pow10(n - 1)
\* decimals = max(0, int(round(-math.log10(round_eps))))
Scale == Pow10(Max(0, Decimals))

\* np.linalg.norm(vec), squared
RECURSIVE NormSqFrom(_, _)
NormSqFrom(v, i) ==
  IF i > Len(v) THEN 0 ELSE v[i].mag * v[i].mag + NormSqFrom(v, i + 1)
NormSq(v) == NormSqFrom(v, 1)

\* np.round(m / norm, decimals) in units of 10^-decimals: the integer nearest
\* to m * Scale / sqrt(nsq), a tie going to the even one
RoundedMag(m, nsq) ==
  CHOOSE n \in 0..Scale :
    /\ n = 0 \/ (2 * n - 1) * (2 * n - 1) * nsq <= 4 * m * m * Scale * Scale
    /\ 4 * m * m * Scale * Scale <= (2 * n + 1) * (2 * n + 1) * nsq
    /\ (n > 0 /\ (2 * n - 1) * (2 * n - 1) * nsq = 4 * m * m * Scale * Scale)
         => n % 2 = 0
    /\ 4 * m * m * Scale * Scale = (2 * n + 1) * (2 * n + 1) * nsq => n % 2 = 0

\* np.asarray(vec, dtype="<f4").tobytes(): the sign bit and the magnitude of
\* every cell
tobytes(v) == [i \in 1..Len(v) |-> <<IF v[i].neg THEN 1 ELSE 0, v[i].mag>>]

\* np.array_equal: cell by cell equality of the values
array_equal(a, b) ==
  Len(a) = Len(b) /\ \A i \in 1..Len(a) : CellValue(a[i]) = CellValue(b[i])

\* canonicalize_vector: divide by the norm when it is positive, round, hash
canonicalize_vector(v) ==
  LET nsq == NormSq(v)
      rounded == IF nsq = 0 THEN v
                 ELSE [i \in 1..Len(v) |-> Cell(v[i].neg, RoundedMag(v[i].mag, nsq))]
  IN [vec |-> rounded, vector_hash |-> blake3(tobytes(rounded))]

\* floor(4 * Scale * x) for the normalised cell x = c / sqrt(nsq)
FloorQuarter(c, nsq) ==
  LET T == 4 * Scale IN
  IF nsq = 0 THEN 0
  ELSE IF ~c.neg
       THEN CHOOSE k \in 0..T :
              /\ k * k * nsq <= T * T * c.mag * c.mag
              /\ k = T \/ (k + 1) * (k + 1) * nsq > T * T * c.mag * c.mag
       ELSE 0 - (CHOOSE k \in 0..T :
                   /\ k * k * nsq >= T * T * c.mag * c.mag
                   /\ k = 0 \/ (k - 1) * (k - 1) * nsq < T * T * c.mag * c.mag)

\* a test in integers that the normalised forms of v and w differ by less
\* than 10^-decimals in every cell: their quarter-steps differ by 2 at most,
\* so the cells differ by less than 3/4 of the tolerance
CloseNormalized(v, w) ==
  \A i \in 1..CanonDim :
    LET a == FloorQuarter(v[i], NormSq(v))
        b == FloorQuarter(w[i], NormSq(w))
    IN a - b <= 2 /\ b - a <= 2

CanonUnused == <<store, idmap, index, pending_rebuild, hnsw, index_path, movies,
                 rebuild_batch, lib_disk_index, in_flight, handed_out, since_rebuild,
                 fresh>>

InitCanon ==
  /\ store = <<>>
  /\ idmap = {}
  /\ index = ClearedIndex
  /\ pending_rebuild = FALSE
  /\ in_flight = {}
  /\ handed_out = {}
  /\ since_rebuild = 0
  /\ fresh = TRUE
  /\ rebuild_batch = 1
  /\ lib_disk_index = TRUE
  /\ hnsw = <<>>
  /\ index_path = NoFile
  /\ movies = {}
  /\ \E v \in CanonInputs : last = [NoStep EXCEPT !.op = "input", !.q = v]

\* canonicalize_vector(vector)
Canonicalize ==
  /\ last.op = "input"
  /\ last' = [NoStep EXCEPT !.op = "canonicalize", !.q = last.q,
                            !.hits = <<canonicalize_vector(last.q)>>]
  /\ UNCHANGED CanonUnused

\* canonicalize_vector on the canonical vector of the call before
CanonicalizeAgain ==
  /\ last.op = "canonicalize"
  /\ last' = [NoStep EXCEPT !.op = "canonicalize_again", !.q = last.hits[1].vec,
                            !.hits = <<last.hits[1],
                                       canonicalize_vector(last.hits[1].vec)>>]
  /\ UNCHANGED CanonUnused

\* canonicalize_vector on a second vector whose normalised form is close to
\* that of the first
CanonicalizeClose(w) ==
  /\ last.op = "canonicalize"
  /\ CloseNormalized(last.q, w)
  /\ last' = [NoStep EXCEPT !.op = "canonicalize_pair", !.q = <<last.q, w>>,
                            !.hits = <<last.hits[1], canonicalize_vector(w)>>]
  /\ UNCHANGED CanonUnused

NextCanon ==
  \/ Canonicalize
  \/ CanonicalizeAgain
  \/ \E w \in CanonInputs : CanonicalizeClose(w)

SpecCanon == InitCanon /\ [][NextCanon]_vars

\* ------------------------------------------------------------------ claims

\* C1: between calls, an index that is not flagged stale covers exactly
\* row_count() vectors.
C1_NotStaleCoversStore ==
  (Quiescent /\ ~pending_rebuild) => IndexRows(index) = row_count(store)

\* C2: once a search or an explicit consistency check has run, the index
\* holds as many vectors as the store has rows (an index reset to size 0
\* against a store of n > 0 rows is rebuilt to size n).
C2_SelfHealBySearchOrCheck ==
  (last.op \in {"search", "check"} /\ Quiescent) => Hnsw_size(hnsw) = row_count(store)

\* C3: the first search served after a (re)start runs on an index that
\* covers every row of the store.
C3_FirstSearchCoversStore ==
  (last.op = "search" /\ last.first /\ Quiescent) => last.searched = last.rows_before

\* C4: on a store of n rows, append of a valid vector returns n and
\* row_count() is n + 1 afterwards.
C4_AppendMonotonic ==
  (last.op = "append" /\ last.ok) =>
     /\ last.row_id = last.rows_before
     /\ row_count(store) = last.rows_before + 1
C4_Witness == last.op = "append" /\ last.ok /\ last.rows_before >= 2

C6_CreatedOnlyWithIdMapEntry ==
  (last.op = "ingest" /\ last.ok /\ last.created) =>
     \E e \in idmap : e.row_id = last.row_id

\* C7: a completed add_embedding rebuilds exactly when the ingests pending
\* since the last rebuild reach the batch size, and otherwise leaves the
\* index flagged stale (stated for calls that no other request overlapped,
\* in runs where every appended row got its IdMap entry, so that no failed
\* or unfinished ingest blurs the count).
C7_RebuildWhenPendingReachesBatch ==
  (last.op = "add_embedding" /\ last.ok /\ last.alone
     /\ Cardinality(idmap) = row_count(store)) =>
     /\ last.rebuilt <=> (last.rows_before = rebuild_batch)
     /\ ~last.rebuilt => pending_rebuild

\* C8: no search is computed from an index that lacks rows of the store.
C8_SearchCoversStore ==
  (last.op = "search" /\ Quiescent) => last.searched = last.rows_before

C10_IngestsSerialized == Cardinality(in_flight) <= 1

\* C11: whatever the query and k, a search that returns gives at most k hits
\* (none for a k below 1), best score first.
C11_SearchBoundedAndOrdered ==
  (last.op = "search" /\ last.ok) =>
    /\ Len(last.hits) <= Max(last.k, 0)
    /\ \A i \in 1..(Len(last.hits) - 1) : last.hits[i].score >= last.hits[i + 1].score

\* C12: a search with k <= 0 returns normally and returns no hit.
C12_NonPositiveKIsEmpty ==
  (last.op = "search" /\ last.k <= 0) => (last.ok /\ last.hits = <<>>)

C14_TornFileIsReported ==
  (Torn(store) /\ last.op \in {"row_count", "append", "read_all"}) => ~last.ok

\* C15: an append that is refused leaves the file as it was, an append that
\* is accepted grows it by exactly one record, and only a single vector of
\* dimension Dim is accepted.
C15_AppendOneVectorOrNothing ==
  [][ last'.op = "append" =>
        IF last'.ok THEN st_size(store') = st_size(store) + record_bytes
        ELSE store' = store ]_vars

\* C16: an ingest fails only when the database does; in particular the
\* ingest of a vector (and vector_hash) that an earlier media already has
\* succeeds and gets its own IdMap entry.
C16_SameVectorTwoMedia ==
  (last.op = "add_embedding" /\ last.db_ok) => last.ok

\* C17: the list resolve_media returns has an element only for row ids
\* that have an IdMap entry.
C17_ResolveOmitsUnmapped ==
  last.op = "resolve" =>
    \A i \in 1..Len(last.hits) : \E e \in idmap : e.row_id = last.hits[i].row_id

\* C18: every IdMap entry has a row id of its own, and that row exists in
\* the store.
C18_IdMapRowsInStore ==
  \A e \in idmap :
    /\ e.row_id >= 0
    /\ e.row_id < row_count(store)
    /\ \A f \in idmap : f.row_id = e.row_id => f = e
C18_Witness ==
  /\ Cardinality(idmap) >= 2
  /\ row_count(store) > Cardinality(idmap)
  /\ last.op = "add_embedding" /\ last.ok

\* C19: the vector_hash of every IdMap entry is the digest of the vector
\* stored at its row.
C19_HashOfStoredVector ==
  \A e \in idmap :
    e.row_id < row_count(store) => e.vector_hash = blake3(Row(store, e.row_id))

\* C20: after build, persist, clear and load, search(q, k) returns what
\* search(q, k) returned before the clear, on either backend.
C20_PersistRoundTrip ==
  [][ last'.op \in {"DiskAnnIndex.search_again", "HnswIndex.search_again"} =>
        last'.hits = last.hits ]_vars

\* C21: read_rows on a store that holds rows, asked for a row id outside
\* 0..row_count()-1 (a negative id included), raises and returns no row.
C21_OutOfRangeIdIsAnError ==
  (/\ last.op = "read_rows"
   /\ last.rows_before > 0
   /\ \E i \in 1..Len(last.q) : last.q[i] < 0 \/ last.q[i] >= last.rows_before)
    => (~last.ok /\ last.hits = <<>>)

\* C22: the row id append returns for a vector reads back as that vector,
\* rows once written stay as they are, and read_rows answers valid ids with
\* the rows at those ids in the order asked, duplicates included, and an
\* empty store with an empty result for any ids.
C22_ReadRowsReturnsAppended ==
  [][ /\ (last'.op = "append" /\ last'.ok /\ Len(last'.q) >= Dim /\ last'.row_id >= 0)
         => Row(store', last'.row_id)
              = SubSeq(last'.q, Len(last'.q) - Dim + 1, Len(last'.q))
      /\ \A i \in 0..(row_count(store) - 1) : Row(store', i) = Row(store, i)
      /\ (last'.op = "read_rows" /\ row_count(store) = 0)
         => (last'.ok /\ last'.hits = <<>>)
      /\ (/\ last'.op = "read_rows"
          /\ \A i \in 1..Len(last'.q) :
                last'.q[i] >= 0 /\ last'.q[i] < row_count(store))
         => /\ last'.ok
            /\ Len(last'.hits) = (IF row_count(store) = 0 THEN 0 ELSE Len(last'.q))
            /\ \A i \in 1..Len(last'.hits) : last'.hits[i] = Row(store, last'.q[i])
    ]_vars

\* C23: a search for k >= 1 over a non-empty index asks the index for
\* max(k, refine_candidates) candidates, scores every hit by the exact
\* similarity of the query with the row read back from the store, and
\* returns the k best of them in descending order of that score.
C23_OverFetchAndRescore ==
  (last.op = "search" /\ last.ok /\ last.k >= 1 /\ last.searched > 0)
    => /\ last.fetched = Max(last.k, RefineCandidates)
       /\ Len(last.hits) = Min(last.k, last.searched)
       /\ \A i \in 1..Len(last.hits) :
             last.hits[i].score = Dot(Row(store, last.hits[i].row_id), last.q)
       /\ \A i \in 1..(Len(last.hits) - 1) :
             last.hits[i].score >= last.hits[i + 1].score
       /\ \A r \in 0..(last.searched - 1) :
             (\A i \in 1..Len(last.hits) : last.hits[i].row_id # r)
               => \A i \in 1..Len(last.hits) :
                    last.hits[i].score >= Dot(Row(store, r), last.q)

\* C24: canonicalising a canonical vector gives the same vector and the
\* same hash.
C24_CanonicalizeIdempotent ==
  last.op = "canonicalize_again"
    => /\ array_equal(last.hits[2].vec, last.hits[1].vec)
       /\ last.hits[2].vector_hash = last.hits[1].vector_hash

\* C25: two vectors whose normalised forms differ by less than the rounding
\* tolerance in every cell get equal canonical vectors and equal hashes.
C25_CloseVectorsSameHash ==
  last.op = "canonicalize_pair"
    => /\ array_equal(last.hits[1].vec, last.hits[2].vec)
       /\ last.hits[1].vector_hash = last.hits[2].vector_hash

C28_EagerIdsAndSizesAgree ==
  /\ (last.op = "add_embedding" /\ last.ok)
       => /\ last.row_id < Hnsw_size(hnsw)
          /\ hnsw[last.row_id + 1] = Row(store, last.row_id)
  /\ (last.op = "add_embedding" \/ (last.op = "append" /\ ~last.ok))
       => Hnsw_size(hnsw) = row_count(store)

C28_Witness ==
  /\ last.op = "add_embedding"
  /\ last.ok
  /\ last.row_id >= 1
  /\ Hnsw_size(hnsw) > last.row_id + 1

\* C29: in the eager service, while the index and the store differ in size,
\* a call of add_embedding that gets to append raises the id mismatch after
\* it has appended one row to the store and one to the index, without
\* touching the IdMap, and the sizes differ until a new service is
\* constructed.
C29_MismatchPersists ==
  [][ Hnsw_size(hnsw) # row_count(store)
        => /\ store' # store
                => /\ last'.op = "add_embedding"
                   /\ ~last'.ok
                   /\ row_count(store') = row_count(store) + 1
                   /\ Hnsw_size(hnsw') = Hnsw_size(hnsw) + 1
                   /\ in_flight' = in_flight
                   /\ idmap' = idmap
           /\ Hnsw_size(hnsw') # row_count(store') \/ last'.op = "restart"
    ]_vars

C29_Witness ==
  /\ last.op = "add_embedding"
  /\ ~last.ok
  /\ Hnsw_size(hnsw) # row_count(store)
  /\ Hnsw_size(hnsw) >= 2

====
